---- MODULE Spec2Model ----
(***************************************************************************)
(* A model of lsp-plugin/plugin.go: the plugin that keeps a language       *)
(* backend informed of the editor's buffers and turns the backend's        *)
(* completion answers into ranked candidate lists for the listeners.       *)
(*                                                                         *)
(* Texts are sequences of characters; a character is a short string.       *)
(* "U3B1" stands for U+03B1, an identifier character of two bytes in       *)
(* UTF-8.  Rows and columns are 0-based as in the source; sequences        *)
(* are 1-based, so runes[i] of the source is runes[i + 1] here.            *)
(***************************************************************************)
EXTENDS Integers, Sequences, FiniteSets, TLC

VARIABLES
    views,            \* p.views: view id -> view (path, syntax, line cache, revision)
    lsp,              \* p.lsp: syntax -> backend client
    lspMutex,         \* p.lspMutex: "free" or "held"
    completionItems,  \* p.completionItems
    completionShown,  \* p.completionShown
    fetched,          \* the last answer lspClient.Completion gave, and the view it was for
    out,              \* what the handler of the last event sent, in order
    last,             \* the last event handled and the state it found
    hung,             \* the sequential event loop is stuck in a handler
    nInit,            \* Initialization events handled so far
    nEdit,            \* Update events handled so far
    pc,               \* concurrent handlers: position of each in handle()
    tl,               \* concurrent handlers: the locals of each
    reg,              \* concurrent handlers: clients created, publications, the map race
    fn                \* the pure functions' harness: inputs and results

vars == <<views, lsp, lspMutex, completionItems, completionShown, fetched, out,
          last, hung, nInit, nEdit, pc, tl, reg, fn>>

pluginVars == <<views, lsp, lspMutex, completionItems, completionShown, fetched,
                out, last, hung, nInit, nEdit>>

handlerVars == <<pc, tl, reg>>

(***************************************************************************)
(* Bounds of the model.                                                    *)
(***************************************************************************)
MaxLen == 2        \* characters a line may grow to
MaxEdit == 2       \* Update events in one run
MaxInit == 2       \* Initialization events in one run
MaxRank == 2       \* ranking passes over one stored list
NumHandlers == 2   \* concurrently running handlers of open-buffer events

(***************************************************************************)
(* Program constants.                                                      *)
(***************************************************************************)
WordClass == 2     \* utils.UtfClass(r) != 2
SyncFull == 1      \* ServerCapabilities.TextDocumentSync == 1
NoMatch == -1      \* score > -1

(***************************************************************************)
(* Characters and the classifier (utils.UtfClass).                         *)
(***************************************************************************)
AsciiWord == {"a", "b", "f", "o", "r"}
WideWord == {"U3B1"}
Punct == {"."}
Blank == {" "}

UtfClass(r) ==
    IF r \in Blank THEN 0
    ELSE IF r \in Punct THEN 1
    ELSE WordClass

\* len(text) of a Go string: its length in bytes
ByteLen(text) ==
    LET RECURSIVE sum(_)
        sum(k) == IF k = 0 THEN 0
                  ELSE sum(k - 1) + (IF text[k] \in WideWord THEN 2 ELSE 1)
    IN sum(Len(text))

SeqsUpTo(S, n) == UNION {[1..k -> S] : k \in 0..n}

\* a backend answer: the items carry no score and no matches yet
FreshItems(texts) ==
    [k \in 1..Len(texts) |->
        [id |-> k, text |-> texts[k], score |-> 0, matches |-> <<>>]]

(***************************************************************************)
(* getWord: the backward scan from column col of line row of a view.       *)
(* The result is [panic, col, word]; panic is Go's index-out-of-range      *)
(* panic on Lines[row] or runes[i].                                        *)
(***************************************************************************)
getWordStopEarly(view, row, col) ==
    LET runes == view.lines[row + 1]
        RECURSIVE scan(_, _)
        scan(i, word) ==
            IF i < 0 THEN [panic |-> FALSE, col |-> 0, word |-> word]
            ELSE IF i >= Len(runes) THEN [panic |-> TRUE, col |-> i, word |-> word]
            ELSE IF UtfClass(runes[i + 1]) # WordClass \/ Len(word) >= 1
                 THEN [panic |-> FALSE, col |-> i + 1, word |-> word]
            ELSE scan(i - 1, <<runes[i + 1]>> \o word)
    IN IF row + 1 \notin DOMAIN view.lines
       THEN [panic |-> TRUE, col |-> col, word |-> <<>>]
       ELSE scan(col, <<>>)

getWord(view, row, col) ==
    LET runes == view.lines[row + 1]
        RECURSIVE scan(_, _)
        scan(i, word) ==
            IF i < 0 THEN [panic |-> FALSE, col |-> 0, word |-> word]
            ELSE IF i >= Len(runes) THEN [panic |-> TRUE, col |-> i, word |-> word]
            ELSE IF UtfClass(runes[i + 1]) # WordClass
                 THEN [panic |-> FALSE, col |-> i + 1, word |-> word]
            ELSE scan(i - 1, <<runes[i + 1]>> \o word)
    IN IF row + 1 \notin DOMAIN view.lines
       THEN [panic |-> TRUE, col |-> col, word |-> <<>>]
       ELSE scan(col, <<>>)

(***************************************************************************)
(* fuzzy.MatchScore: pattern must be a subsequence of text, matched        *)
(* leftmost first; the score counts the characters skipped up to the last  *)
(* match (lower is stronger), NoMatch when the pattern does not match.     *)
(***************************************************************************)
MatchScore(text, pattern) ==
    LET RECURSIVE walk(_, _, _)
        walk(i, j, matches) ==
            IF j > Len(pattern)
            THEN [score |-> IF matches = <<>> THEN 0
                            ELSE matches[Len(matches)] - (Len(pattern) - 1),
                  matches |-> matches]
            ELSE IF i > Len(text) THEN [score |-> NoMatch, matches |-> <<>>]
            ELSE IF text[i] = pattern[j]
                 THEN walk(i + 1, j + 1, Append(matches, i - 1))
            ELSE walk(i + 1, j, matches)
    IN walk(1, 1, <<>>)

(***************************************************************************)
(* matchCompletionItems.  items are records [id, text, score, matches];    *)
(* the source holds pointers, so the pass returns both the ranked          *)
(* sequence (out, as indexes into items) and the items as the pass left    *)
(* them (heap): score and matches are overwritten in place.                *)
(***************************************************************************)
InsertAt(s, i, x) == SubSeq(s, 1, i - 1) \o <<x>> \o SubSeq(s, i, Len(s))

\* lines 313-319: the first position of matchItems whose score is greater than score
InsertPosUnstable(heap, matchItems, score) ==
    LET later == {i \in 1..Len(matchItems) : score <= heap[matchItems[i]].score}
    IN IF later = {} THEN Len(matchItems) + 1
       ELSE CHOOSE i \in later : \A j \in later : i <= j

InsertPosFront(heap, matchItems, score) == 1

InsertPos(heap, matchItems, score) ==
    LET later == {i \in 1..Len(matchItems) : score < heap[matchItems[i]].score}
    IN IF later = {} THEN Len(matchItems) + 1
       ELSE CHOOSE i \in later : \A j \in later : i <= j

matchPass(items, word) ==
    LET RECURSIVE loop(_, _, _)
        loop(k, heap, matchItems) ==
            IF k > Len(items) THEN [heap |-> heap, out |-> matchItems]
            ELSE LET r == MatchScore(heap[k].text, word)
                 IN IF r.score > NoMatch
                    THEN loop(k + 1,
                              [heap EXCEPT ![k].score = r.score,
                                           ![k].matches = r.matches],
                              InsertAt(matchItems,
                                       InsertPos(heap, matchItems, r.score), k))
                    ELSE loop(k + 1, heap, matchItems)
    IN loop(1, items, <<>>)

matchCompletionItemsKeepMatches(items, word) ==
    IF Len(word) = 0
    THEN [heap |-> items, out |-> [k \in 1..Len(items) |-> k]]
    ELSE matchPass(items, word)

matchCompletionItems(items, word) ==
    IF Len(word) = 0
    THEN [heap |-> [k \in 1..Len(items) |-> [items[k] EXCEPT !.matches = <<>>]],
          out |-> [k \in 1..Len(items) |-> k]]
    ELSE matchPass(items, word)

Ids(items) == [k \in 1..Len(items) |-> items[k].id]

\* the items a ranked sequence points to
Deref(heap, idx) == [k \in 1..Len(idx) |-> heap[idx[k]]]

(***************************************************************************)
(* The state after NewPlugin(), and the parts a specification leaves       *)
(* alone.                                                                  *)
(***************************************************************************)
NoEvent == [ev |-> "none"]

\* no completion query has been answered yet
NoFetch == [view |-> "", items |-> <<>>]

\* a Go map with no entries
EmptyMap == [k \in {} |-> k]

PluginInit ==
    /\ views = EmptyMap
    /\ lsp = EmptyMap
    /\ lspMutex = "free"
    /\ completionItems = <<>>
    /\ completionShown = FALSE
    /\ fetched = NoFetch
    /\ out = <<>>
    /\ last = NoEvent
    /\ hung = FALSE
    /\ nInit = 0
    /\ nEdit = 0

HandlersInit ==
    /\ pc = <<>>
    /\ tl = <<>>
    /\ reg = <<>>

(***************************************************************************)
(* The host's buffers, the files behind them and the backend's answers.    *)
(***************************************************************************)
Buffers == {[path |-> "a.go", view |-> "v1"], [path |-> "b.rs", view |-> "v2"]}

\* filepath.Ext(buf.Path) without its leading "."
Syntax(path) ==
    CASE path = "a.go" -> "go"
      [] path = "c.go" -> "go"
      [] path = "b.rs" -> "rs"

\* what ioutil.ReadFile returns when it succeeds, as lines
Files(path) ==
    CASE path = "a.go" -> << <<"a">>, <<>> >>
      [] path = "c.go" -> << <<>> >>
      [] path = "b.rs" -> << <<"U3B1">> >>

Batches == {b \in SeqsUpTo(Buffers, Cardinality(Buffers)) :
               /\ Len(b) > 0
               /\ \A i \in 1..Len(b) : \A j \in 1..Len(b) : i # j => b[i] # b[j]}

\* ServerCapabilities.TextDocumentSync: full, incremental
SyncModes == {1, 2}

AnswerLists ==
    { <<>>,
      << <<"b", "a">>, <<"a">>, <<"a", "b">> >>,
      << <<"U3B1">> >> }

\* what lspClient.Completion returns
NoAnswer == [err |-> TRUE, items |-> <<>>]

Answers ==
    {NoAnswer} \cup
    {[err |-> FALSE, items |-> FreshItems(l)] : l \in AnswerLists}

InsTexts == {<<>>, <<"a">>, <<"b">>, <<"U3B1">>, <<".">>, <<" ">>, <<"a", "b">>}

\* string(view.LineCache.Raw): the lines joined by newlines
Raw(lines) ==
    LET RECURSIVE join(_)
        join(k) == IF k = 0 THEN <<>>
                   ELSE IF k = 1 THEN lines[1]
                   ELSE join(k - 1) \o <<"\n">> \o lines[k]
    IN join(Len(lines))

Put(f, k, v) == [x \in DOMAIN f \cup {k} |-> IF x = k THEN v ELSE f[x]]

(***************************************************************************)
(* What a handler sends.                                                   *)
(***************************************************************************)
ToBackend(syntax, m, arg) == [to |-> "backend", syntax |-> syntax, m |-> m, arg |-> arg]

\* conn.Notify(ctx, m, arg) for every conn of p.conns: one broadcast
ToListeners(m, arg) == [to |-> "listeners", m |-> m, arg |-> arg]

(***************************************************************************)
(* handle, case *plugin.Initialization, run to its end by the sequential   *)
(* event loop.  InitRuns is the set of states the loop over the batch can  *)
(* end in: st = [views, lsp, mutex, out, hung, done, why].                 *)
(***************************************************************************)
NewView(buf) ==
    [path |-> buf.path, syntax |-> Syntax(buf.path), raw |-> FALSE,
     lines |-> <<>>, rev |-> 0]

\* lines 97-119: the registry, from Lock to Unlock
RegistryRuns(st, syntax) ==
    IF st.mutex = "held"
    THEN {[st EXCEPT !.hung = TRUE, !.why = "lock"]}
    ELSE IF syntax \in DOMAIN st.lsp
    THEN {st}
    ELSE {[st EXCEPT !.mutex = "held", !.why = "NewClient"]}
         \cup
         {[st EXCEPT !.mutex = "held", !.why = "Getwd",
                     !.out = Append(@, ToBackend(syntax, "spawn", <<>>))]}
         \cup
         {[st EXCEPT !.mutex = "held", !.why = "Initialize",
                     !.out = @ \o <<ToBackend(syntax, "spawn", <<>>),
                                    ToBackend(syntax, "initialize", <<>>)>>]}
         \cup
         {[st EXCEPT !.lsp = Put(@, syntax, [sync |-> s]),
                     !.out = @ \o <<ToBackend(syntax, "spawn", <<>>),
                                    ToBackend(syntax, "initialize", <<>>)>>] :
             s \in SyncModes}

\* lines 121-133: the content and the open notification
OpenRuns(st, buf) ==
    LET syntax == Syntax(buf.path)
        content == Files(buf.path)
        seeded == [st EXCEPT !.views[buf.view].raw = TRUE,
                             !.views[buf.view].lines = content,
                             !.out = Append(@, ToBackend(syntax, "didOpen",
                                                <<buf.path, Raw(content)>>))]
    IN {[st EXCEPT !.why = "ReadFile"]}
       \cup {[seeded EXCEPT !.why = "DidOpen"]}
       \cup {[seeded EXCEPT !.done = @ + 1]}

InitRuns(batch, st0) ==
    LET RECURSIVE loop(_, _)
        loop(k, st) ==
            IF k > Len(batch) \/ st.why # "" THEN {st}
            ELSE LET buf == batch[k]
                     st1 == [st EXCEPT !.views = Put(@, buf.view, NewView(buf))]
                     regs == RegistryRuns(st1, Syntax(buf.path))
                 IN UNION {IF st2.why # "" THEN {st2}
                           ELSE UNION {loop(k + 1, st3) : st3 \in OpenRuns(st2, buf)} :
                           st2 \in regs}
    IN loop(1, st0)

Initialization(batch) ==
    /\ ~hung
    /\ nInit < MaxInit
    /\ \E fin \in InitRuns(batch, [views |-> views, lsp |-> lsp, mutex |-> lspMutex,
                                   out |-> <<>>, hung |-> FALSE, done |-> 0,
                                   why |-> ""]) :
          /\ views' = fin.views
          /\ lsp' = fin.lsp
          /\ lspMutex' = fin.mutex
          /\ out' = fin.out
          /\ hung' = fin.hung
          /\ last' = [ev |-> "init", batch |-> batch, done |-> fin.done,
                      why |-> fin.why]
    /\ nInit' = nInit + 1
    /\ UNCHANGED <<completionItems, completionShown, fetched, nEdit, fn>>
    /\ UNCHANGED handlerVars

(***************************************************************************)
(* view.ApplyUpdate: the text model replaces del characters at (row, col)  *)
(* by text and reports the delta; an edit that changes something raises    *)
(* the revision.                                                           *)
(***************************************************************************)
ApplyUpdate(view, e) ==
    LET line == view.lines[e.row + 1]
        changed == e.del > 0 \/ e.text # <<>>
        newLine == SubSeq(line, 1, e.col) \o e.text
                   \o SubSeq(line, e.col + e.del + 1, Len(line))
    IN [view |-> IF changed
                 THEN [view EXCEPT !.lines[e.row + 1] = newLine, !.rev = @ + 1]
                 ELSE view,
        startRow |-> e.row, startCol |-> e.col,
        endRow |-> e.row, endCol |-> e.col + e.del,
        text |-> e.text,
        deletedText |-> SubSeq(line, e.col + 1, e.col + e.del),
        changed |-> changed]

Edits(view) ==
    {e \in [row : 0..(Len(view.lines) - 1), col : 0..MaxLen, del : 0..MaxLen,
            text : InsTexts] :
        /\ e.col + e.del <= Len(view.lines[e.row + 1])
        /\ Len(view.lines[e.row + 1]) - e.del + Len(e.text) <= MaxLen}

(***************************************************************************)
(* The completion engine.  A run of complete is a record                   *)
(* [items, shown, out, panic]: p.completionItems and p.completionShown as  *)
(* it leaves them, what it sent, and whether it panicked.                  *)
(***************************************************************************)
\* lines 202-221
resetNoPaste(text, deletedText) ==
    \/ \E k \in 1..Len(text) : UtfClass(text[k]) # WordClass
    \/ \E k \in 1..Len(deletedText) : UtfClass(deletedText[k]) # WordClass

resetNoInserted(text, deletedText) ==
    \/ Len(text) > 1
    \/ \E k \in 1..Len(deletedText) : UtfClass(deletedText[k]) # WordClass

reset(text, deletedText) ==
    \/ Len(text) > 1
    \/ \E k \in 1..Len(text) : UtfClass(text[k]) # WordClass
    \/ \E k \in 1..Len(deletedText) : UtfClass(deletedText[k]) # WordClass

notifyCompletion(run, items) ==
    [run EXCEPT !.shown = Len(items) > 0,
                !.out = Append(@, ToListeners("completion", items))]

notifyCompletionPos(run, pos) ==
    [run EXCEPT !.out = Append(@, ToListeners("completion_pos", pos))]

\* lines 270-280: the anchor and the word of a fetch; skip: return without a query
fetchAnchorAtDot(view, text, startRow, startCol) ==
    IF ByteLen(text) = 1
    THEN IF text = <<".">>
         THEN [skip |-> FALSE, panic |-> FALSE, col |-> startCol, word |-> <<>>]
         ELSE IF UtfClass(text[1]) = WordClass
         THEN getWord(view, startRow, startCol) @@ [skip |-> FALSE]
         ELSE [skip |-> FALSE, panic |-> FALSE, col |-> startCol, word |-> <<>>]
    ELSE IF text = <<>>
    THEN [skip |-> TRUE, panic |-> FALSE, col |-> startCol, word |-> <<>>]
    ELSE [skip |-> FALSE, panic |-> FALSE, col |-> startCol, word |-> <<>>]

fetchAnchorNoSkip(view, text, startRow, startCol) ==
    IF ByteLen(text) = 1
    THEN IF text = <<".">>
         THEN [skip |-> FALSE, panic |-> FALSE, col |-> startCol + 1, word |-> <<>>]
         ELSE IF UtfClass(text[1]) = WordClass
         THEN getWord(view, startRow, startCol) @@ [skip |-> FALSE]
         ELSE [skip |-> FALSE, panic |-> FALSE, col |-> startCol, word |-> <<>>]
    ELSE [skip |-> FALSE, panic |-> FALSE, col |-> startCol, word |-> <<>>]

fetchAnchor(view, text, startRow, startCol) ==
    IF ByteLen(text) = 1
    THEN IF text = <<".">>
         THEN [skip |-> FALSE, panic |-> FALSE, col |-> startCol + 1, word |-> <<>>]
         ELSE IF UtfClass(text[1]) = WordClass
         THEN getWord(view, startRow, startCol) @@ [skip |-> FALSE]
         ELSE [skip |-> FALSE, panic |-> FALSE, col |-> startCol, word |-> <<>>]
    ELSE IF text = <<>>
    THEN [skip |-> TRUE, panic |-> FALSE, col |-> startCol, word |-> <<>>]
    ELSE [skip |-> FALSE, panic |-> FALSE, col |-> startCol, word |-> <<>>]

\* the column the narrowing pass scans from
narrowColNoAdjust(text, startCol) == startCol

narrowCol(text, startCol) == IF text = <<>> THEN startCol - 1 ELSE startCol

\* the result is [run, ret]: ret is the list returned
getCompletionItemsErrIgnored(run, view, text, startRow, startCol, answer) ==
    IF Len(run.items) > 0
    THEN LET w == getWord(view, startRow, narrowCol(text, startCol))
             r == matchCompletionItems(run.items, w.word)
         IN IF w.panic THEN [run |-> [run EXCEPT !.panic = TRUE], ret |-> <<>>]
            ELSE [run |-> [run EXCEPT !.items = r.heap], ret |-> Deref(r.heap, r.out)]
    ELSE LET a == fetchAnchor(view, text, startRow, startCol)
             pos == [line |-> startRow, character |-> a.col]
             asked == [run EXCEPT !.out = Append(@, ToBackend(view.syntax, "completion",
                                                     <<view.path, pos>>)),
                                  !.asked = TRUE]
             r == matchCompletionItems(answer.items, a.word)
         IN IF a.panic THEN [run |-> [run EXCEPT !.panic = TRUE], ret |-> <<>>]
            ELSE IF a.skip THEN [run |-> run, ret |-> run.items]
            ELSE [run |-> [notifyCompletionPos(asked, pos) EXCEPT !.items = r.heap],
                  ret |-> Deref(r.heap, r.out)]

getCompletionItemsStoresRanked(run, view, text, startRow, startCol, answer) ==
    IF Len(run.items) > 0
    THEN LET w == getWord(view, startRow, narrowCol(text, startCol))
             r == matchCompletionItems(run.items, w.word)
         IN IF w.panic THEN [run |-> [run EXCEPT !.panic = TRUE], ret |-> <<>>]
            ELSE [run |-> [run EXCEPT !.items = r.heap], ret |-> Deref(r.heap, r.out)]
    ELSE LET a == fetchAnchor(view, text, startRow, startCol)
             pos == [line |-> startRow, character |-> a.col]
             asked == [run EXCEPT !.out = Append(@, ToBackend(view.syntax, "completion",
                                                     <<view.path, pos>>)),
                                  !.asked = TRUE]
             r == matchCompletionItems(answer.items, a.word)
         IN IF a.panic THEN [run |-> [run EXCEPT !.panic = TRUE], ret |-> <<>>]
            ELSE IF a.skip THEN [run |-> run, ret |-> run.items]
            ELSE IF answer.err THEN [run |-> asked, ret |-> <<>>]
            ELSE [run |-> [notifyCompletionPos(asked, pos)
                              EXCEPT !.items = Deref(r.heap, r.out)],
                  ret |-> Deref(r.heap, r.out)]

getCompletionItems(run, view, text, startRow, startCol, answer) ==
    IF Len(run.items) > 0
    THEN LET w == getWord(view, startRow, narrowCol(text, startCol))
             r == matchCompletionItems(run.items, w.word)
         IN IF w.panic THEN [run |-> [run EXCEPT !.panic = TRUE], ret |-> <<>>]
            ELSE [run |-> [run EXCEPT !.items = r.heap], ret |-> Deref(r.heap, r.out)]
    ELSE LET a == fetchAnchor(view, text, startRow, startCol)
             pos == [line |-> startRow, character |-> a.col]
             asked == [run EXCEPT !.out = Append(@, ToBackend(view.syntax, "completion",
                                                     <<view.path, pos>>)),
                                  !.asked = TRUE]
             r == matchCompletionItems(answer.items, a.word)
         IN IF a.panic THEN [run |-> [run EXCEPT !.panic = TRUE], ret |-> <<>>]
            ELSE IF a.skip THEN [run |-> run, ret |-> run.items]
            ELSE IF answer.err THEN [run |-> asked, ret |-> <<>>]
            ELSE [run |-> [notifyCompletionPos(asked, pos) EXCEPT !.items = r.heap],
                  ret |-> Deref(r.heap, r.out)]

complete(run0, view, text, deletedText, startRow, startCol, answer) ==
    LET run == IF reset(text, deletedText) /\ Len(run0.items) > 0
               THEN [run0 EXCEPT !.items = <<>>]
               ELSE run0
        g == getCompletionItems(run, view, text, startRow, startCol, answer)
    IN IF Len(text) > 1 THEN notifyCompletion(run, run.items)
       ELSE IF Len(text) > 0 /\ text[Len(text)] # "." /\ UtfClass(text[Len(text)]) # WordClass
       THEN notifyCompletion(run, run.items)
       ELSE IF g.run.panic THEN g.run
       ELSE notifyCompletion(g.run, g.ret)

(***************************************************************************)
(* handle, case *plugin.Update.                                            *)
(***************************************************************************)
\* lines 142-173: the change notification
didChangeAlwaysRange(view, d) ==
    ToBackend(view.syntax, "didChange",
              [path |-> view.path, version |-> view.rev,
               range |-> <<d.startRow, d.startCol, d.endRow, d.endCol>>,
               text |-> d.text])

didChange(view, d) ==
    ToBackend(view.syntax, "didChange",
              IF lsp[view.syntax].sync = SyncFull
              THEN [path |-> view.path, version |-> view.rev,
                    range |-> <<>>, text |-> Raw(view.lines)]
              ELSE [path |-> view.path, version |-> view.rev,
                    range |-> <<d.startRow, d.startCol, d.endRow, d.endCol>>,
                    text |-> d.text])

\* a view whose content was loaded; its backend is then published
Seeded(v) == v \in DOMAIN views /\ views[v].raw

\* the runs of the handler after ApplyUpdate reported d, one per answer of
\* the backend (the answer matters only to a run that asks)
UpdateRunsChangeLast(d) ==
    LET run0 == [items |-> completionItems, shown |-> completionShown,
                 out |-> <<>>, asked |-> FALSE, panic |-> FALSE]
    IN IF ~d.changed THEN {[run |-> run0, answer |-> NoAnswer]}
       ELSE {LET run == complete(run0, d.view, d.text, d.deletedText,
                                 d.startRow, d.startCol, answer)
             IN [run |-> [run EXCEPT !.out = Append(@, didChange(d.view, d))],
                 answer |-> IF run.asked THEN answer ELSE NoAnswer] :
             answer \in Answers}

UpdateRunsNoGuard(d) ==
    LET run0 == [items |-> completionItems, shown |-> completionShown,
                 out |-> <<>>, asked |-> FALSE, panic |-> FALSE]
        run1 == [run0 EXCEPT !.out = <<didChange(d.view, d)>>]
    IN {LET run == complete(run1, d.view, d.text, d.deletedText,
                            d.startRow, d.startCol, answer)
        IN [run |-> run, answer |-> IF run.asked THEN answer ELSE NoAnswer] :
        answer \in Answers}

UpdateRuns(d) ==
    LET run0 == [items |-> completionItems, shown |-> completionShown,
                 out |-> <<>>, asked |-> FALSE, panic |-> FALSE]
        run1 == [run0 EXCEPT !.out = <<didChange(d.view, d)>>]
    IN IF ~d.changed THEN {[run |-> run0, answer |-> NoAnswer]}
       ELSE {LET run == complete(run1, d.view, d.text, d.deletedText,
                                 d.startRow, d.startCol, answer)
             IN [run |-> run, answer |-> IF run.asked THEN answer ELSE NoAnswer] :
             answer \in Answers}

Update(v, e) ==
    /\ ~hung
    /\ nEdit < MaxEdit
    /\ Seeded(v)
    /\ e \in Edits(views[v])
    /\ \E d \in {ApplyUpdate(views[v], e)} : \E r \in UpdateRuns(d) :
          /\ views' = [views EXCEPT ![v] = d.view]
          /\ completionItems' = r.run.items
          /\ completionShown' = r.run.shown
          /\ fetched' = IF r.run.asked /\ ~r.run.panic /\ ~r.answer.err
                        THEN [view |-> v, items |-> r.answer.items]
                        ELSE fetched
          /\ out' = r.run.out
          /\ last' = [ev |-> "update", view |-> v, delta |-> [d EXCEPT !.view = v],
                      pre |-> completionItems, preShown |-> completionShown,
                      preBy |-> fetched.view,
                      preRev |-> views[v].rev, asked |-> r.run.asked,
                      answer |-> r.answer, panic |-> r.run.panic]
    /\ nEdit' = nEdit + 1
    /\ UNCHANGED <<lsp, lspMutex, hung, nInit, fn>>
    /\ UNCHANGED handlerVars

\* an Update for a view that is not registered, or whose syntax has no
\* backend: the handler panics on the nil view (line 137) or the nil client
\* (line 165) and recover() ends it
UpdateNil(v) ==
    /\ ~hung
    /\ nEdit < MaxEdit
    /\ IF v \in DOMAIN views THEN views[v].syntax \notin DOMAIN lsp ELSE TRUE
    /\ out' = <<>>
    /\ last' = [ev |-> "update", view |-> v, panic |-> TRUE]
    /\ nEdit' = nEdit + 1
    /\ UNCHANGED <<views, lsp, lspMutex, completionItems, completionShown,
                   fetched, hung, nInit, fn>>
    /\ UNCHANGED handlerVars

Views == {b.view : b \in Buffers}

Init ==
    /\ PluginInit
    /\ HandlersInit
    /\ fn = [op |-> "none"]

Next ==
    \/ \E batch \in Batches : Initialization(batch)
    \/ \E v \in Views \cap DOMAIN views : \E e \in Edits(views[v]) : Update(v, e)
    \/ \E v \in Views : UpdateNil(v)

Spec == Init /\ [][Next]_vars

(***************************************************************************)
(* What the claims about one edit speak of: the last event was an Update   *)
(* that the text model accepted.                                           *)
(***************************************************************************)
Accepted == last.ev = "update" /\ ~last.panic /\ last.delta.changed

Sel(m) == SelectSeq(out, LAMBDA x : x.m = m)

Queries == SelectSeq(out, LAMBDA x : x.to = "backend" /\ x.m = "completion")

Broadcasts == SelectSeq(out, LAMBDA x : x.to = "listeners" /\ x.m = "completion")

Inserted == last.delta.text

Deleted == last.delta.deletedText

IsWord(r) == UtfClass(r) = WordClass

\* the line the edit was made in, as the edit left it
EditedLine == views[last.view].lines[last.delta.startRow + 1]

\* the start column of the longest identifier run of line that ends before column end
RunStart(line, end) ==
    LET starts == {b \in 0..end : \A k \in (b + 1)..end : IsWord(line[k])}
    IN CHOOSE b \in starts : \A c \in starts : b <= c

RunBefore(line, end) == SubSeq(line, RunStart(line, end) + 1, end)

\* the cursor column after the edit
Cursor == last.delta.startCol + Len(Inserted)

(***************************************************************************)
(* C1.  Reset on paste: after an accepted edit that inserts two or more    *)
(* characters, whatever the state before and whatever was deleted, the     *)
(* stored candidate list is empty, the one completion broadcast of the     *)
(* edit carries the empty list, and no completion query was sent.          *)
(***************************************************************************)
C1_ResetOnPaste ==
    (Accepted /\ Len(Inserted) >= 2) =>
        /\ completionItems = <<>>
        /\ Len(Broadcasts) = 1
        /\ Broadcasts[1].arg = <<>>
        /\ Queries = <<>>

\* a paste of identifier characters over an identifier character, list held
C1_Witness ==
    /\ Accepted
    /\ Len(Inserted) >= 2
    /\ \A k \in 1..Len(Inserted) : IsWord(Inserted[k])
    /\ Deleted # <<>>
    /\ \A k \in 1..Len(Deleted) : IsWord(Deleted[k])
    /\ last.pre # <<>>
    /\ completionItems = <<>>

(***************************************************************************)
(* C2.  Reset on punctuation: after an accepted edit that inserts exactly  *)
(* one character that is neither "." nor an identifier character while a   *)
(* candidate list is held, the stored list is empty, the one completion    *)
(* broadcast of the edit carries the empty list, and no completion query   *)
(* was sent.                                                               *)
(***************************************************************************)
C2_ResetOnPunctuation ==
    (Accepted /\ Len(Inserted) = 1 /\ Inserted # <<".">> /\ ~IsWord(Inserted[1])
        /\ last.pre # <<>>) =>
        /\ completionItems = <<>>
        /\ Len(Broadcasts) = 1
        /\ Broadcasts[1].arg = <<>>
        /\ Queries = <<>>

C2_Witness ==
    /\ Accepted
    /\ Inserted = <<" ">>
    /\ Deleted = <<>>
    /\ last.pre # <<>>
    /\ completionItems = <<>>

(***************************************************************************)
(* C3.  Local narrow: when a candidate list is held and an accepted edit   *)
(* inserts exactly one identifier character or nothing, every deleted      *)
(* character being an identifier character, no completion query and no     *)
(* completion_pos is sent, the stored list keeps its members and their     *)
(* order, and the list broadcast is the ranking of the stored list against *)
(* the identifier run that ends at the cursor.                             *)
(***************************************************************************)
C3_Case ==
    /\ Accepted
    /\ last.pre # <<>>
    /\ Inserted = <<>> \/ (Len(Inserted) = 1 /\ IsWord(Inserted[1]))
    /\ \A k \in 1..Len(Deleted) : IsWord(Deleted[k])

C3_LocalNarrow ==
    C3_Case =>
        LET r == matchCompletionItems(last.pre, RunBefore(EditedLine, Cursor))
        IN /\ Queries = <<>>
           /\ Sel("completion_pos") = <<>>
           /\ Ids(completionItems) = Ids(last.pre)
           /\ \A k \in 1..Len(last.pre) : completionItems[k].text = last.pre[k].text
           /\ Len(Broadcasts) = 1
           /\ Broadcasts[1].arg = Deref(r.heap, r.out)

\* a deletion that leaves a non-empty run, and a narrowing that reorders
C3_Witness ==
    /\ C3_Case
    /\ Inserted = <<>>
    /\ RunBefore(EditedLine, Cursor) # <<>>
    /\ Len(Broadcasts) = 1
    /\ Len(Broadcasts[1].arg) > 1
    /\ Ids(Broadcasts[1].arg) # Ids(completionItems)

(***************************************************************************)
(* C4.  Fetch in Idle: when no candidate list is held and an accepted edit *)
(* inserts exactly one identifier character, ASCII or not, exactly one     *)
(* completion query is sent, at the edit's row and at the column where the *)
(* identifier run ending at the inserted character starts, and the         *)
(* candidates returned are ranked against that run.                        *)
(***************************************************************************)
C4_Case ==
    /\ Accepted
    /\ last.pre = <<>>
    /\ Len(Inserted) = 1
    /\ IsWord(Inserted[1])

C4_FetchInIdle ==
    C4_Case =>
        LET r == matchCompletionItems(last.answer.items, RunBefore(EditedLine, Cursor))
        IN /\ Len(Queries) = 1
           /\ Queries[1].arg[2] = [line |-> last.delta.startRow,
                                   character |-> RunStart(EditedLine, Cursor)]
           /\ ~last.answer.err =>
                 /\ Len(Broadcasts) = 1
                 /\ Broadcasts[1].arg = Deref(r.heap, r.out)

\* the same, for the identifier characters of one byte
C4_FetchInIdleAscii ==
    (C4_Case /\ Inserted[1] \in AsciiWord) =>
        LET r == matchCompletionItems(last.answer.items, RunBefore(EditedLine, Cursor))
        IN /\ Len(Queries) = 1
           /\ Queries[1].arg[2] = [line |-> last.delta.startRow,
                                   character |-> RunStart(EditedLine, Cursor)]
           /\ ~last.answer.err =>
                 /\ Len(Broadcasts) = 1
                 /\ Broadcasts[1].arg = Deref(r.heap, r.out)

(***************************************************************************)
(* C5.  Sync-mode selection: an accepted edit sends exactly one change     *)
(* notification to the document's backend, with the document's current     *)
(* revision; under full sync it has no range and its text is the whole     *)
(* current content; under incremental sync its range is the delta's and    *)
(* its text is the inserted text.                                          *)
(***************************************************************************)
C5_SyncModeSelection ==
    Accepted =>
        LET view == views[last.view]
            sent == Sel("didChange")
        IN /\ Len(sent) = 1
           /\ sent[1].to = "backend"
           /\ sent[1].syntax = view.syntax
           /\ sent[1].arg.path = view.path
           /\ sent[1].arg.version = view.rev
           /\ lsp[view.syntax].sync = 1 =>
                 /\ sent[1].arg.range = <<>>
                 /\ sent[1].arg.text = Raw(view.lines)
           /\ lsp[view.syntax].sync = 2 =>
                 /\ sent[1].arg.range = <<last.delta.startRow, last.delta.startCol,
                                         last.delta.endRow, last.delta.endCol>>
                 /\ sent[1].arg.text = Inserted

\* a one-character edit of a longer document under full sync
C5_Witness ==
    /\ Accepted
    /\ lsp[views[last.view].syntax].sync = 1
    /\ Len(Inserted) = 1
    /\ Deleted = <<>>
    /\ Sel("didChange")[1].arg.text # Inserted
    /\ Sel("didChange")[1].arg.range = <<>>

(***************************************************************************)
(* What the claims about one Initialization event speak of.                *)
(***************************************************************************)
\* the buffer the batch loop stopped at
FailedAt == last.done + 1

\* the open notifications the event sent for a path
OpenedFor(path) ==
    SelectSeq(out, LAMBDA x : x.m = "didOpen" /\ x.arg[1] = path)

(***************************************************************************)
(* C11.  Partial-failure isolation: when reading the file of one buffer of *)
(* an initialization batch fails, every other buffer of the batch, those   *)
(* listed after the failing one included, has its view registered, its     *)
(* content loaded and its open notification sent to the backend.           *)
(***************************************************************************)
C11_PartialFailureIsolation ==
    (last.ev = "init" /\ last.why = "ReadFile") =>
        \A k \in 1..Len(last.batch) :
            k # FailedAt =>
                /\ last.batch[k].view \in DOMAIN views
                /\ views[last.batch[k].view].raw
                /\ views[last.batch[k].view].lines = Files(last.batch[k].path)
                /\ Len(OpenedFor(last.batch[k].path)) = 1

\* what the loop does do: the buffers listed before the failing one are
\* opened, the failing one is registered without content, and the loop ends
C11_BatchStopsAtFailure ==
    (last.ev = "init" /\ last.why = "ReadFile") =>
        /\ FailedAt \in 1..Len(last.batch)
        /\ \A k \in 1..Len(last.batch) :
              /\ k < FailedAt =>
                    /\ views[last.batch[k].view].raw
                    /\ Len(OpenedFor(last.batch[k].path)) = 1
              /\ k >= FailedAt => OpenedFor(last.batch[k].path) = <<>>
        /\ last.batch[FailedAt].view \in DOMAIN views
        /\ ~views[last.batch[FailedAt].view].raw

(***************************************************************************)
(* C12.  Unchanged edit is a no-op: when the text model reports an edit    *)
(* as changing nothing, the handler sends nothing to the backend and       *)
(* nothing to the listeners, and the stored candidate list, the popup flag *)
(* and the document are as they were.                                      *)
(***************************************************************************)
C12_UnchangedEditNoOp ==
    (last.ev = "update" /\ ~last.panic /\ ~last.delta.changed) =>
        /\ out = <<>>
        /\ completionItems = last.pre
        /\ completionShown = last.preShown
        /\ views[last.view].rev = last.preRev

\* an edit that changes nothing while a candidate list is held and shown
C12_Witness ==
    /\ last.ev = "update"
    /\ ~last.panic
    /\ ~last.delta.changed
    /\ last.pre # <<>>
    /\ last.preShown
    /\ completionItems = last.pre

(***************************************************************************)
(* C13.  One completion session per document: an accepted edit in one view *)
(* while the held candidate list was fetched by a query for a different    *)
(* view leaves that list held with its members, and broadcasts no          *)
(* candidate of it: what the edit broadcasts is empty unless the edit      *)
(* sent a query of its own.                                                *)
(***************************************************************************)
OtherViewsList ==
    /\ Accepted
    /\ last.pre # <<>>
    /\ last.preBy # last.view

C13_SessionPerDocument ==
    OtherViewsList =>
        /\ Ids(completionItems) = Ids(last.pre)
        /\ \A k \in 1..Len(last.pre) : completionItems[k].text = last.pre[k].text
        /\ fetched.view = last.preBy
        /\ Queries = <<>> =>
              \A i \in 1..Len(Broadcasts) : Broadcasts[i].arg = <<>>

\* what the one list of the plugin does instead: an edit in any view acts
\* on the held list as C1-C3 say, whichever view's query fetched it
C13_OneListForAllViews ==
    OtherViewsList =>
        /\ reset(Inserted, Deleted) =>
              (completionItems = <<>> \/ (last.asked /\ ~last.answer.err))
        /\ ~reset(Inserted, Deleted) =>
              /\ Queries = <<>>
              /\ Ids(completionItems) = Ids(last.pre)
              /\ Len(Broadcasts) = 1
              /\ \A i \in 1..Len(Broadcasts[1].arg) :
                    \E k \in 1..Len(last.pre) : Broadcasts[1].arg[i].id = last.pre[k].id

(***************************************************************************)
(* What the claims about a fetch speak of.                                 *)
(***************************************************************************)
\* the edit sent a completion query and the backend answered with an error
FailedFetch == Accepted /\ last.asked /\ last.answer.err

\* the edit sent a completion query and the backend answered with a list
GoodFetch == Accepted /\ last.asked /\ ~last.answer.err

\* the edit inserted one character that is an identifier character or "."
Triggering ==
    /\ Accepted
    /\ Len(Inserted) = 1
    /\ (Inserted = <<".">> \/ IsWord(Inserted[1]))

Positions == SelectSeq(out, LAMBDA x : x.to = "listeners" /\ x.m = "completion_pos")

\* the position of the first message of out that satisfies Test, 0 if none
First(Test(_)) ==
    LET hits == {i \in 1..Len(out) : Test(out[i])}
    IN IF hits = {} THEN 0 ELSE CHOOSE i \in hits : \A j \in hits : i <= j

IsQuery(x) == x.to = "backend" /\ x.m = "completion"

IsBroadcast(x) == x.to = "listeners" /\ x.m = "completion"

IsPosition(x) == x.to = "listeners" /\ x.m = "completion_pos"

IsChange(x) == x.to = "backend" /\ x.m = "didChange"

(***************************************************************************)
(* C14.  Failed fetch leaves Idle: when the completion query of an edit    *)
(* is answered with an error, the one completion broadcast of the edit     *)
(* carries the empty list, no completion_pos is broadcast, and the stored  *)
(* list is empty afterwards; the next edit, if it inserts one identifier   *)
(* character or ".", sends a completion query again.                       *)
(***************************************************************************)
FailedFetchIdle ==
    FailedFetch =>
        /\ Len(Queries) = 1
        /\ Len(Broadcasts) = 1
        /\ Broadcasts[1].arg = <<>>
        /\ Positions = <<>>
        /\ completionItems = <<>>
        /\ ~completionShown

QueriesAgain ==
    (FailedFetch /\ nEdit' = nEdit + 1 /\ Triggering') => Len(Queries') = 1

C14_FailedFetchLeavesIdle == []FailedFetchIdle /\ [][QueriesAgain]_vars

\* a query for a typed identifier character that the backend refused
C14_Witness ==
    /\ FailedFetch
    /\ IsWord(Inserted[1])
    /\ Len(Queries) = 1
    /\ Broadcasts[1].arg = <<>>
    /\ completionItems = <<>>

(***************************************************************************)
(* C15.  Successful fetch ordering: when the completion query of an edit   *)
(* is answered with a list, the query's anchor is broadcast as             *)
(* completion_pos exactly once, after the query and before the edit's one  *)
(* completion broadcast; the stored list becomes the whole answer, in the  *)
(* answer's order; the completion broadcast carries the answer ranked      *)
(* against the prefix, the identifier run left of the cursor (empty after  *)
(* "."); and completion_pos is broadcast by no other event.                *)
(***************************************************************************)
\* the prefix of a fetch: nothing after ".", else the run ending at the cursor
FetchPrefix == IF Inserted = <<".">> THEN <<>> ELSE RunBefore(EditedLine, Cursor)

\* the order and the storing of a successful fetch
FetchOrder ==
    /\ Len(Queries) = 1
    /\ Len(Positions) = 1
    /\ Positions[1].arg = Queries[1].arg[2]
    /\ Len(Broadcasts) = 1
    /\ First(IsQuery) < First(IsPosition)
    /\ First(IsPosition) < First(IsBroadcast)
    /\ Ids(completionItems) = Ids(last.answer.items)
    /\ \A k \in 1..Len(completionItems) :
           completionItems[k].text = last.answer.items[k].text

RankedAgainst(word) ==
    LET r == matchCompletionItems(last.answer.items, word)
    IN Broadcasts[1].arg = Deref(r.heap, r.out)

C15_SuccessfulFetchOrdering ==
    /\ GoodFetch => (FetchOrder /\ RankedAgainst(FetchPrefix))
    /\ ~GoodFetch => Positions = <<>>

\* what holds of every successful fetch: the order and the storing; the
\* ranking is against the prefix when the inserted character is one byte
\* long, and against the empty prefix when it is longer
C15_FetchOrderingByBytes ==
    /\ GoodFetch =>
          /\ FetchOrder
          /\ RankedAgainst(IF Inserted[1] \in WideWord THEN <<>> ELSE FetchPrefix)
    /\ ~GoodFetch => Positions = <<>>

(***************************************************************************)
(* C16.  Member-access fetch: an accepted edit that inserts exactly the    *)
(* one character "." sends exactly one completion query, whatever list was *)
(* held and whatever was deleted, at the edit's row and one column right   *)
(* of the edit's start column; the list held before is discarded: the      *)
(* stored list afterwards is the answer, or empty when the query failed;   *)
(* and the completion broadcast carries every candidate of the answer in   *)
(* the answer's order.                                                     *)
(***************************************************************************)
C16_MemberAccessFetch ==
    (Accepted /\ Inserted = <<".">>) =>
        /\ Len(Queries) = 1
        /\ Queries[1].arg[2] = [line |-> last.delta.startRow,
                                character |-> last.delta.startCol + 1]
        /\ Len(Broadcasts) = 1
        /\ First(IsQuery) < First(IsBroadcast)
        /\ completionItems = last.answer.items
        /\ Broadcasts[1].arg = last.answer.items

\* "." typed over a deleted character while a list with several candidates
\* is held; the answer is another list
C16_Witness ==
    /\ Accepted
    /\ Inserted = <<".">>
    /\ Deleted # <<>>
    /\ Len(last.pre) > 1
    /\ GoodFetch
    /\ Len(completionItems) = 1
    /\ Broadcasts[1].arg = completionItems

(***************************************************************************)
(* C17.  Pure deletion in Idle: an accepted edit that inserts nothing,     *)
(* while no list is held or while the deletion removes a character that is *)
(* not an identifier character, sends no completion query; its one         *)
(* completion broadcast carries the empty list and the stored list is      *)
(* empty afterwards.                                                       *)
(***************************************************************************)
C17_Case ==
    /\ Accepted
    /\ Inserted = <<>>
    /\ \/ last.pre = <<>>
       \/ \E k \in 1..Len(Deleted) : ~IsWord(Deleted[k])

C17_PureDeletionInIdle ==
    C17_Case =>
        /\ Queries = <<>>
        /\ Positions = <<>>
        /\ Len(Broadcasts) = 1
        /\ Broadcasts[1].arg = <<>>
        /\ completionItems = <<>>
        /\ ~completionShown

\* a deletion of "." while a list is held: the list is discarded, no query
C17_Witness ==
    /\ C17_Case
    /\ last.pre # <<>>
    /\ Deleted = <<".">>
    /\ completionItems = <<>>
    /\ Queries = <<>>

(***************************************************************************)
(* C19.  Change before query: the change notification of an accepted edit  *)
(* is the first thing its handler sends: it goes to the backend before any *)
(* completion query of the edit and before anything is broadcast to the    *)
(* listeners, and it carries the revision the edit produced.               *)
(***************************************************************************)
C19_ChangeBeforeQuery ==
    Accepted =>
        /\ Len(out) >= 1
        /\ IsChange(out[1])
        /\ out[1].arg.version = views[last.view].rev
        /\ views[last.view].rev = last.preRev + 1
        /\ \A i \in 1..Len(out) :
              (IsQuery(out[i]) \/ out[i].to = "listeners") => i > 1

\* an edit whose handler sent the change, then a query, then both broadcasts
C19_Witness ==
    /\ GoodFetch
    /\ Len(out) = 4
    /\ IsChange(out[1])
    /\ IsQuery(out[2])
    /\ IsPosition(out[3])
    /\ IsBroadcast(out[4])

(***************************************************************************)
(* C20.  A completion query is sent only while the stored list is empty    *)
(* (it was empty before the edit, or the edit reset it), at most once per  *)
(* edit; the stored list is always empty or, member for member and in      *)
(* order, the last list the backend answered with; and an event changes    *)
(* the stored list's members only by emptying it on a reset or by storing  *)
(* the answer of a successful query.                                       *)
(***************************************************************************)
SameMembers(a, b) ==
    /\ Len(a) = Len(b)
    /\ \A k \in 1..Len(a) : a[k].id = b[k].id /\ a[k].text = b[k].text

C20_QueryOnlyWhenEmpty ==
    /\ completionItems = <<>> \/ SameMembers(completionItems, fetched.items)
    /\ Len(Queries) <= 1
    /\ Queries # <<>> =>
          /\ Accepted
          /\ last.pre = <<>> \/ reset(Inserted, Deleted)
    /\ (last.ev = "update" /\ ~last.panic) =>
          \/ SameMembers(completionItems, last.pre)
          \/ completionItems = <<>> /\ Accepted /\ reset(Inserted, Deleted)
          \/ GoodFetch /\ SameMembers(completionItems, last.answer.items)

\* a held list is narrowed by one edit: it is still the backend's last answer
C20_Witness ==
    /\ nEdit = 2
    /\ Accepted
    /\ Queries = <<>>
    /\ last.pre # <<>>
    /\ Len(Broadcasts[1].arg) < Len(completionItems)
    /\ completionItems # fetched.items
    /\ SameMembers(completionItems, fetched.items)

(***************************************************************************)
(* handle, case *plugin.Initialization, step by step, for open-buffer      *)
(* events that are handled concurrently: each handler takes one event of   *)
(* one buffer and runs lines 81-134.  pc[h] is the line handler h is at,   *)
(* tl[h] its locals.  reg records every client created and every           *)
(* publication into p.lsp, which view object of p.views is whose, and      *)
(* whether the runtime stopped the process.                                *)
(***************************************************************************)
Handlers == 1..NumHandlers

OpenBuffers == Buffers \cup {[path |-> "c.go", view |-> "v3"]}

Critical == {"check", "new", "getwd", "initialize", "publish", "unlock"}

Failures == {"NewClient", "Getwd", "Initialize"}

OpenInit ==
    /\ PluginInit
    /\ fn = [op |-> "none"]
    /\ pc = [h \in Handlers |-> "idle"]
    /\ tl = [h \in Handlers |-> [buf |-> <<>>, client |-> <<>>, why |-> ""]]
    /\ reg = [created |-> <<>>, published |-> <<>>, owner |-> EmptyMap,
              crashed |-> FALSE]

Running(h, at) == ~reg.crashed /\ pc[h] = at

Goto(h, to) == pc' = [pc EXCEPT ![h] = to]

OpenFrame ==
    UNCHANGED <<completionItems, completionShown, fetched, last, hung, nInit, nEdit, fn>>

\* the transport hands an Initialization event to a handler
Receive(h, buf) ==
    /\ Running(h, "idle")
    /\ tl' = [tl EXCEPT ![h].buf = buf]
    /\ Goto(h, "view")
    /\ UNCHANGED <<views, lsp, lspMutex, out, reg>>
    /\ OpenFrame

\* line 96, p.views[viewID] = view: a map write under no lock
ViewWrite(h) ==
    /\ Running(h, "view")
    /\ Goto(h, "viewing")
    /\ UNCHANGED <<views, lsp, lspMutex, out, tl, reg>>
    /\ OpenFrame

ViewDone(h) ==
    /\ Running(h, "viewing")
    /\ views' = Put(views, tl[h].buf.view, NewView(tl[h].buf))
    /\ reg' = [reg EXCEPT !.owner = Put(@, tl[h].buf.view, h)]
    /\ Goto(h, "lock")
    /\ UNCHANGED <<lsp, lspMutex, out, tl>>
    /\ OpenFrame

\* two writes of p.views in progress at once: the runtime may stop the
\* process ("concurrent map writes"); when it does not, both go on
MapRace ==
    /\ ~reg.crashed
    /\ \E h \in Handlers : \E g \in Handlers : h # g /\ pc[h] = "viewing" /\ pc[g] = "viewing"
    /\ reg' = [reg EXCEPT !.crashed = TRUE]
    /\ UNCHANGED <<views, lsp, lspMutex, out, pc, tl>>
    /\ OpenFrame

\* line 97
LockNoWait(h) ==
    /\ Running(h, "lock")
    /\ lspMutex' = "held"
    /\ Goto(h, "check")
    /\ UNCHANGED <<views, lsp, out, tl, reg>>
    /\ OpenFrame

Lock(h) ==
    /\ Running(h, "lock")
    /\ lspMutex = "free"
    /\ lspMutex' = "held"
    /\ Goto(h, "check")
    /\ UNCHANGED <<views, lsp, out, tl, reg>>
    /\ OpenFrame

\* lines 98-99
Check(h) ==
    /\ Running(h, "check")
    /\ IF Syntax(tl[h].buf.path) \in DOMAIN lsp
       THEN /\ tl' = [tl EXCEPT ![h].client = lsp[Syntax(tl[h].buf.path)]]
            /\ Goto(h, "unlock")
       ELSE /\ tl' = tl
            /\ Goto(h, "new")
    /\ UNCHANGED <<views, lsp, lspMutex, out, reg>>
    /\ OpenFrame

\* a return nil of lines 103-116: the handler ends where it is
Fail(h, why) ==
    /\ tl' = [tl EXCEPT ![h].why = why]
    /\ Goto(h, "done")

\* lines 102-106
NewClient(h) ==
    /\ Running(h, "new")
    /\ \/ /\ Fail(h, "NewClient")
          /\ UNCHANGED <<out, reg>>
       \/ /\ tl' = [tl EXCEPT ![h].client = [id |-> Len(reg.created) + 1, sync |-> 0]]
          /\ reg' = [reg EXCEPT !.created = Append(@, Syntax(tl[h].buf.path))]
          /\ out' = Append(out, ToBackend(Syntax(tl[h].buf.path), "spawn", <<>>))
          /\ Goto(h, "getwd")
    /\ UNCHANGED <<views, lsp, lspMutex>>
    /\ OpenFrame

\* lines 107-111
Getwd(h) ==
    /\ Running(h, "getwd")
    /\ \/ Fail(h, "Getwd")
       \/ /\ tl' = tl
          /\ Goto(h, "initialize")
    /\ UNCHANGED <<views, lsp, lspMutex, out, reg>>
    /\ OpenFrame

\* lines 112-116
Initialize(h) ==
    /\ Running(h, "initialize")
    /\ out' = Append(out, ToBackend(Syntax(tl[h].buf.path), "initialize", <<>>))
    /\ \/ Fail(h, "Initialize")
       \/ \E s \in SyncModes :
             /\ tl' = [tl EXCEPT ![h].client.sync = s]
             /\ Goto(h, "publish")
    /\ UNCHANGED <<views, lsp, lspMutex, reg>>
    /\ OpenFrame

\* line 117
Publish(h) ==
    /\ Running(h, "publish")
    /\ lsp' = Put(lsp, Syntax(tl[h].buf.path), tl[h].client)
    /\ reg' = [reg EXCEPT !.published =
                  Append(@, [syntax |-> Syntax(tl[h].buf.path), id |-> tl[h].client.id])]
    /\ Goto(h, "unlock")
    /\ UNCHANGED <<views, lspMutex, out, tl>>
    /\ OpenFrame

\* line 119
Unlock(h) ==
    /\ Running(h, "unlock")
    /\ lspMutex' = "free"
    /\ Goto(h, "read")
    /\ UNCHANGED <<views, lsp, out, tl, reg>>
    /\ OpenFrame

\* lines 121-128: SetRaw fills the handler's own view object, which is the
\* one in p.views unless a later event of the same view replaced it
ReadFile(h) ==
    /\ Running(h, "read")
    /\ \/ /\ Fail(h, "ReadFile")
          /\ views' = views
       \/ /\ views' = IF reg.owner[tl[h].buf.view] = h
                      THEN [views EXCEPT ![tl[h].buf.view].raw = TRUE,
                                         ![tl[h].buf.view].lines = Files(tl[h].buf.path)]
                      ELSE views
          /\ tl' = tl
          /\ Goto(h, "open")
    /\ UNCHANGED <<lsp, lspMutex, out, reg>>
    /\ OpenFrame

\* lines 129-133
DidOpen(h) ==
    /\ Running(h, "open")
    /\ out' = Append(out, ToBackend(Syntax(tl[h].buf.path), "didOpen",
                                    <<tl[h].buf.path, Raw(Files(tl[h].buf.path))>>))
    /\ \/ Fail(h, "DidOpen")
       \/ /\ tl' = tl
          /\ Goto(h, "done")
    /\ UNCHANGED <<views, lsp, lspMutex, reg>>
    /\ OpenFrame

OpenNext ==
    \/ \E h \in Handlers : \E buf \in OpenBuffers : Receive(h, buf)
    \/ \E h \in Handlers :
          \/ ViewWrite(h)
          \/ ViewDone(h)
          \/ Lock(h)
          \/ Check(h)
          \/ NewClient(h)
          \/ Getwd(h)
          \/ Initialize(h)
          \/ Publish(h)
          \/ Unlock(h)
          \/ ReadFile(h)
          \/ DidOpen(h)
    \/ MapRace

SpecOpen == OpenInit /\ [][OpenNext]_vars

(***************************************************************************)
(* C9.  Backend uniqueness: under any interleaving of concurrently handled *)
(* open-buffer events, at most one backend session per language is ever    *)
(* created and published in the registry, and a published session is       *)
(* never replaced or removed.                                              *)
(***************************************************************************)
PublishedOnce ==
    \A i \in 1..Len(reg.published) : \A j \in 1..Len(reg.published) :
        reg.published[i].syntax = reg.published[j].syntax => i = j

NeverReplaced ==
    \A l \in DOMAIN lsp : l \in DOMAIN lsp' /\ lsp'[l] = lsp[l]

C9_BackendUnique == []PublishedOnce /\ [][NeverReplaced]_vars

\* two handlers of two buffers of one language are both through the
\* registry, the second using the session the first published
C9_Witness ==
    /\ DOMAIN pc = Handlers
    /\ \E h \in Handlers : \E g \in Handlers :
          /\ h # g
          /\ pc[h] \in {"read", "open", "done"} /\ tl[h].why \notin Failures
          /\ pc[g] \in {"read", "open", "done"} /\ tl[g].why \notin Failures
          /\ tl[h].buf # tl[g].buf
          /\ Syntax(tl[h].buf.path) = Syntax(tl[g].buf.path)
          /\ tl[h].client = tl[g].client
          /\ Len(reg.published) = 1

(***************************************************************************)
(* C10.  Handshake failure is retryable: when the creation of a backend    *)
(* or its handshake fails, no session is published for the language and    *)
(* the registry stays passable: whenever its lock is held, a handler is    *)
(* between Lock and Unlock and will release it, so every later             *)
(* open-buffer event gets through and can attempt the creation again.      *)
(***************************************************************************)
C10_HandshakeRetryable ==
    (DOMAIN pc = Handlers) =>
        /\ \A h \in Handlers :
              (pc[h] = "done" /\ tl[h].why \in Failures) =>
                  \A l \in DOMAIN lsp :
                      IF tl[h].client = <<>> THEN TRUE ELSE lsp[l].id # tl[h].client.id
        /\ lspMutex = "held" => \E h \in Handlers : pc[h] \in Critical

(***************************************************************************)
(* getWord on its own: every line up to MaxLen characters, and the line    *)
(* "foo.bar", with every column from -1 to the line's length.              *)
(***************************************************************************)
WordChars == {"a", "U3B1", ".", " "}

FooBar == <<"f", "o", "o", ".", "b", "a", "r">>

WordLines == SeqsUpTo(WordChars, MaxLen) \cup {FooBar}

WordInit ==
    /\ PluginInit
    /\ HandlersInit
    /\ \E line \in WordLines : \E col \in (-1)..Len(line) :
           fn = [op |-> "word", line |-> line, col |-> col, done |-> FALSE,
                 res |-> [panic |-> FALSE, col |-> 0, word |-> <<>>]]

ScanWord ==
    /\ fn.op = "word"
    /\ ~fn.done
    /\ fn' = [fn EXCEPT !.done = TRUE,
                        !.res = getWord([lines |-> <<fn.line>>], 0, fn.col)]
    /\ UNCHANGED pluginVars
    /\ UNCHANGED handlerVars

WordNext == ScanWord

SpecWord == WordInit /\ [][WordNext]_vars

(***************************************************************************)
(* matchCompletionItems on its own: a list as the backend returned it is   *)
(* ranked against a word, up to MaxRank times as the stored list is on     *)
(* successive narrowing passes; every pass is also applied a second time   *)
(* to its own result.                                                      *)
(***************************************************************************)
MaxCand == 4       \* candidates in one list

CandTexts == {<<"a">>, <<"a", "b">>, <<"b", "a">>, <<"b">>}

RankWords == {<<>>, <<"a">>, <<"b">>, <<"a", "b">>}

RankInit ==
    /\ PluginInit
    /\ HandlersInit
    /\ \E texts \in SeqsUpTo(CandTexts, MaxCand) :
           fn = [op |-> "rank", items |-> FreshItems(texts), n |-> 0,
                 word |-> <<>>, in |-> <<>>, res |-> <<>>, again |-> <<>>]

RankPass(word) ==
    /\ fn.op = "rank"
    /\ fn.n < MaxRank
    /\ LET r == matchCompletionItems(fn.items, word)
           ranked == Deref(r.heap, r.out)
           r2 == matchCompletionItems(ranked, word)
       IN fn' = [fn EXCEPT !.items = r.heap, !.n = fn.n + 1, !.word = word,
                           !.in = fn.items, !.res = ranked,
                           !.again = Deref(r2.heap, r2.out)]
    /\ UNCHANGED pluginVars
    /\ UNCHANGED handlerVars

RankNext == \E word \in RankWords : RankPass(word)

SpecRank == RankInit /\ [][RankNext]_vars

(***************************************************************************)
(* C6 (as stated).  Ranking order: for any candidate set and prefix, the   *)
(* returned sequence is non-decreasing in score, holds exactly the         *)
(* candidates whose score is above the floor, and keeps candidates of      *)
(* equal score in their original order.                                    *)
(***************************************************************************)
Ranked(in, word, res) ==
    /\ \A i \in 1..Len(res) : \A j \in 1..Len(res) :
           i < j => /\ res[i].score <= res[j].score
                    /\ res[i].id # res[j].id
                    /\ res[i].score = res[j].score => res[i].id < res[j].id
    /\ {res[i].id : i \in 1..Len(res)} =
           {in[k].id : k \in {k \in 1..Len(in) :
                                 MatchScore(in[k].text, word).score > NoMatch}}
    /\ \A i \in 1..Len(res) :
           /\ res[i].score > NoMatch
           /\ \E k \in 1..Len(in) :
                  /\ in[k].id = res[i].id
                  /\ in[k].text = res[i].text

C6_RankingOrderAnyPrefix ==
    (fn.op = "rank" /\ fn.n > 0) => Ranked(fn.in, fn.word, fn.res)

(***************************************************************************)
(* C6 (amended).  Ranking order: for any candidate set and any non-empty   *)
(* prefix, the returned sequence is non-decreasing in score, each score    *)
(* being the candidate's score against the prefix, holds exactly the       *)
(* candidates that score above the floor, and keeps candidates of equal    *)
(* score in their original order.                                          *)
(***************************************************************************)
C6_RankingOrder ==
    (fn.op = "rank" /\ fn.n > 0 /\ fn.word # <<>>) =>
        /\ Ranked(fn.in, fn.word, fn.res)
        /\ \A i \in 1..Len(fn.res) :
               fn.res[i].score = MatchScore(fn.res[i].text, fn.word).score

\* a pass that drops a candidate and moves two of equal score, in their
\* original order, before a weaker one
C6_Witness ==
    /\ fn.op = "rank"
    /\ fn.n > 0
    /\ fn.word = <<"a">>
    /\ Len(fn.in) = 4
    /\ Len(fn.res) = 3
    /\ fn.res[1].score = fn.res[2].score
    /\ fn.res[2].score < fn.res[3].score
    /\ fn.res[3].id < fn.res[1].id

(***************************************************************************)
(* C7.  Ranking idempotence: ranking the result of a pass again against    *)
(* the same prefix returns the same members in the same order.             *)
(***************************************************************************)
C7_RankingIdempotent ==
    (fn.op = "rank" /\ fn.n > 0) => Ids(fn.again) = Ids(fn.res)

\* a pass that reordered its input and kept candidates of equal score
C7_Witness ==
    /\ fn.op = "rank"
    /\ fn.n > 0
    /\ fn.word # <<>>
    /\ Len(fn.res) = 3
    /\ fn.res[1].score = fn.res[2].score
    /\ Ids(fn.res) # <<1, 2, 3>>
    /\ Ids(fn.again) = Ids(fn.res)

(***************************************************************************)
(* C18.  Empty-prefix ranking: against the empty prefix the ranking step   *)
(* returns every candidate of its input in the input's order, none         *)
(* dropped and none moved whatever scores they carry from earlier passes,  *)
(* each with its score left as it was and its matched positions cleared.   *)
(***************************************************************************)
C18_EmptyPrefixRanking ==
    (fn.op = "rank" /\ fn.n > 0 /\ fn.word = <<>>) =>
        /\ Len(fn.res) = Len(fn.in)
        /\ \A k \in 1..Len(fn.in) :
               /\ fn.res[k].id = fn.in[k].id
               /\ fn.res[k].text = fn.in[k].text
               /\ fn.res[k].score = fn.in[k].score
               /\ fn.res[k].matches = <<>>
        /\ fn.items = fn.res

\* a second pass, against the empty prefix, over a list whose first pass
\* left matched positions and scores that are not in ascending order
C18_Witness ==
    /\ fn.op = "rank"
    /\ fn.n = 2
    /\ fn.word = <<>>
    /\ Len(fn.in) >= 3
    /\ fn.in[1].score > fn.in[2].score
    /\ fn.in[1].matches # <<>>
    /\ fn.res[1].matches = <<>>
    /\ Ids(fn.res) = Ids(fn.in)

(***************************************************************************)
(* C8 (as stated).  Word scan: for every line and every cursor column      *)
(* from 0 to the line's length, the scan reads nothing outside the line    *)
(* and returns the longest run of identifier characters immediately left   *)
(* of the cursor with the column where it starts; "foo.bar" at column 7    *)
(* gives "bar" and 4.                                                      *)
(***************************************************************************)
\* word is the longest identifier run of line ending just before column end
IsRunBefore(line, end, start, word) ==
    /\ start + Len(word) = end
    /\ start >= 0
    /\ word = SubSeq(line, start + 1, end)
    /\ \A k \in 1..Len(word) : UtfClass(word[k]) = WordClass
    /\ start = 0 \/ UtfClass(line[start]) # WordClass

C8_WordScanAtCursor ==
    (fn.op = "word" /\ fn.done /\ fn.col >= 0) =>
        /\ ~fn.res.panic
        /\ IsRunBefore(fn.line, fn.col, fn.res.col, fn.res.word)
        /\ (fn.line = FooBar /\ fn.col = 7) =>
               (fn.res.word = <<"b", "a", "r">> /\ fn.res.col = 4)

(***************************************************************************)
(* C8 (amended).  Word scan: for every line and every column from -1 to    *)
(* the line's length less one (the column of the character left of the     *)
(* cursor), the scan reads nothing outside the line and returns the        *)
(* longest run of identifier characters that ends at that column,          *)
(* inclusive, with the column where the run starts (0 if it reaches the    *)
(* line start, column + 1 if the run is empty); "foo.bar" at column 6      *)
(* gives "bar" and 4.  At the column equal to the line's length the scan   *)
(* reads past the line's end.                                              *)
(***************************************************************************)
C8_WordScan ==
    (fn.op = "word" /\ fn.done) =>
        /\ fn.col < Len(fn.line) =>
               /\ ~fn.res.panic
               /\ IsRunBefore(fn.line, fn.col + 1, fn.res.col, fn.res.word)
        /\ (fn.line = FooBar /\ fn.col = 6) =>
               (fn.res.word = <<"b", "a", "r">> /\ fn.res.col = 4)
        /\ fn.col = Len(fn.line) => fn.res.panic

C8_Witness ==
    /\ fn.op = "word"
    /\ fn.done
    /\ fn.line = FooBar
    /\ fn.col = 6
    /\ fn.res.word = <<"b", "a", "r">>
    /\ fn.res.col = 4

====
